---- MODULE Spec2Model ----
(***************************************************************************)
(* Conway's Game of Life on a toroidal grid (crate game_of_life).          *)
(*                                                                         *)
(* The module models src/src/lib.rs: utils::add_mod_n with its i32 casts,  *)
(* CellBoard / Game construction (new, from_file) and the Game operations  *)
(* tick, apply_action, randomize and slots_and_cells; the engine of        *)
(* src/main.rs; and the threads and channels of src/bin/cli/main.rs.       *)
(*                                                                         *)
(* Specifications:                                                         *)
(*   Spec      a Game built by Game::new, driven by tick / apply_action /  *)
(*             randomize                                                   *)
(*   SpecWrap  calls of the pure function utils::add_mod_n                 *)
(*   SpecLoad  the two constructors, Game::new and Game::from_file         *)
(*   SpecEmpty a Game built by Game::new, then only ticked                 *)
(*   SpecBlock a 2x2 block seeded on a grid of at least 4x4, then ticked   *)
(*   SpecBlinker a line of three cells seeded on a grid of at least 5x5,   *)
(*             then ticked                                                 *)
(*   SpecSeed  a Game built by Game::new, driven by tick / apply_action    *)
(*   SpecGame  a Game built by either constructor, driven by tick /        *)
(*             apply_action / randomize                                    *)
(*   SpecRender a randomized Game, ticked and read by slots_and_cells      *)
(*   SpecPair  the engines of src/lib.rs and src/main.rs on the same grid  *)
(*   SpecCli   the CLI: coordinating loop, timer thread and input thread   *)
(*   SpecWidget a GameWidget driven by regulate_speed and toggle_pause     *)
(***************************************************************************)
EXTENDS Integers, Sequences, FiniteSets

VARIABLES
    overflow_checks, \* build profile: TRUE = arithmetic overflow panics (debug)
    call,            \* SpecWrap: the arguments of the add_mod_n call
    ret,             \* SpecWrap: what the call produced
    file,            \* the pattern file: whether it can be opened, and its characters
    result,          \* what the constructor of the Game returned
    height,          \* CellBoard.height
    width,           \* CellBoard.width
    cells,           \* CellBoard.cells, a sequence of rows, each a sequence of cells
    generation,      \* Game.generation
    tick_calls,      \* how many times Game::tick has been called
    panicked,        \* the thread that owns the Game has panicked
    items,           \* what the last call of Game::slots_and_cells yielded
    simple,          \* the Game of src/main.rs: its cells, its ticks, its panic
    cli              \* the CLI around the Game: its threads, channels and frame

\* what is kept beside the Game
views == <<items, simple, cli>>

vars == <<overflow_checks, call, ret, file, result,
          height, width, cells, generation, tick_calls, panicked, views>>

(***************************************************************************)
(* Bounds of the model.                                                    *)
(***************************************************************************)
MaxDim == 3        \* Spec: largest height or width of a grid
MaxCells == 9      \* Spec: largest height * width of a grid
MaxBlinkerDim == 6 \* SpecBlinker: largest height or width of a grid
MaxCalls == 2      \* SpecRender: largest number of calls of Game::slots_and_cells
MaxCliCells == 2   \* SpecCli: largest height * width of a grid
MaxWidgetCalls == 4 \* SpecWidget: largest number of calls of the widget's methods
MaxKeys == 1       \* SpecCli: largest number of key presses read
MaxTicks == 2      \* largest number of calls of Game::tick
MaxHi == 2         \* SpecWrap: largest multiple of 2^31 in a usize argument
MaxLo == 20        \* SpecWrap: arguments lie within MaxLo of a multiple of 2^31
MaxTextLen == 5    \* SpecLoad: largest number of characters in the file
MaxLoadedLen == 4  \* SpecGame: largest number of characters in the file
MaxSeedDim == 5    \* SpecEmpty, SpecBlock: largest height or width of a grid

(***************************************************************************)
(* Machine integers.  A usize is held as [hi, lo], standing for            *)
(* hi * 2^31 + lo with 0 <= lo < 2^31, so that values beyond the range of  *)
(* an i32 can be written down; an i32 is an integer in I32Min..I32Max.     *)
(***************************************************************************)
I32Max == 2147483647
I32Min == (-I32Max) - 1

USize(n) == [hi |-> 0, lo |-> n]

USizeLess(a, b) == a.hi < b.hi \/ (a.hi = b.hi /\ a.lo < b.lo)

\* the result of a call: a panic, or a value
Panic == [panic |-> TRUE, val |-> 0]
Value(v) == [panic |-> FALSE, val |-> v]

\* `x as i32`: keeps the low 32 bits, bit 31 becoming the sign
as_i32(u) == IF u.hi % 2 = 0 THEN u.lo ELSE (u.lo - I32Max) - 1

\* `a + b` on i32: on overflow a panic with overflow checks, else two's
\* complement wrap-around
i32_add(a, b) ==
    IF b > 0 /\ a > I32Max - b
    THEN IF overflow_checks THEN Panic
         ELSE Value(((a - I32Max) - 1) + ((b - I32Max) - 1))
    ELSE IF b < 0 /\ a < I32Min - b
    THEN IF overflow_checks THEN Panic
         ELSE Value(((a + I32Max) + 1) + ((b + I32Max) + 1))
    ELSE Value(a + b)

\* i32::rem_euclid: panics on a zero divisor and on I32Min rem -1; otherwise
\* the least non-negative remainder modulo |n|
i32_rem_euclid(a, n) ==
    IF n = 0 THEN Panic
    ELSE IF a = I32Min /\ n = -1 THEN Panic
    ELSE IF n = I32Min THEN (IF a >= 0 THEN Value(a) ELSE Value((a + I32Max) + 1))
    ELSE Value(a % (IF n < 0 THEN -n ELSE n))

\* i32 -> usize by try_into().expect(..): panics on a negative value
i32_try_into_usize(r) == IF r < 0 THEN Panic ELSE Value(r)

add_mod_n(lhs, rhs, modulo) ==
    LET sum == i32_add(as_i32(lhs), rhs)
    IN  IF sum.panic THEN Panic
        ELSE LET rem == i32_rem_euclid(sum.val, as_i32(modulo))
             IN  IF rem.panic THEN Panic ELSE i32_try_into_usize(rem.val)

(***************************************************************************)
(* game::cell                                                              *)
(***************************************************************************)
Cell == {"Dead", "Alive"}
Action == {"Die", "Live"}

\* Cell::apply
Cell_applySwapped(cell, action) == IF action = "Die" THEN "Alive" ELSE "Dead"

Cell_apply(cell, action) == IF action = "Die" THEN "Dead" ELSE "Alive"

(***************************************************************************)
(* CellBoard: a record [height, width, cells].  Slot(row, col) is the pair *)
(* <<row, col>>, counted from 0 as in the source; the sequences of the     *)
(* model are indexed from 1.                                               *)
(***************************************************************************)
CellBoard_newTransposed(h, w) ==
    [height |-> h, width |-> w,
     cells |-> [r \in 1..w |-> [c \in 1..h |-> "Dead"]]]

CellBoard_new(h, w) ==
    [height |-> h, width |-> w,
     cells |-> [r \in 1..h |-> [c \in 1..w |-> "Dead"]]]

cell_board == [height |-> height, width |-> width, cells |-> cells]

\* whether cells[row][col] is an element of the vectors (else indexing panics)
InBounds(cb, slot) ==
    /\ slot[1] < Len(cb.cells)
    /\ slot[2] < Len(cb.cells[slot[1] + 1])

get_slot(cb, slot) == cb.cells[slot[1] + 1][slot[2] + 1]

apply_to_slotWholeRow(cb, slot, action) ==
    [cb EXCEPT !.cells[slot[1] + 1] =
        [c \in 1..Len(@) |-> Cell_apply(@[c], action)]]

apply_to_slot(cb, slot, action) ==
    [cb EXCEPT !.cells[slot[1] + 1][slot[2] + 1] = Cell_apply(@, action)]

SlotsAtLeastOne(cb) ==
    (0..(IF cb.height = 0 THEN 0 ELSE cb.height - 1))
        \X (0..(IF cb.width = 0 THEN 0 ELSE cb.width - 1))

\* the positions tick and randomize loop over: 0..height() x 0..width()
Slots(cb) == (0..(cb.height - 1)) \X (0..(cb.width - 1))

(***************************************************************************)
(* Game::get_action                                                        *)
(***************************************************************************)
NeighborOffsetsMissingOne ==
    << <<0, 1>>, <<-1, 1>>, <<-1, 0>>, <<-1, -1>>,
       <<0, -1>>, <<1, -1>>, <<1, 0>> >>

NeighborOffsets ==
    << <<0, 1>>, <<-1, 1>>, <<-1, 0>>, <<-1, -1>>,
       <<0, -1>>, <<1, -1>>, <<1, 0>>, <<1, 1>> >>

\* the match on the cell and its live_neighbors
LifeRuleBirthOnTwo(cell, live_neighbors) ==
    IF cell = "Alive"
    THEN IF live_neighbors \in 2..3 THEN "Live" ELSE "Die"
    ELSE IF live_neighbors \in 2..3 THEN "Live" ELSE "Die"

LifeRuleSurviveOnThree(cell, live_neighbors) ==
    IF cell = "Alive"
    THEN IF live_neighbors = 3 THEN "Live" ELSE "Die"
    ELSE IF live_neighbors = 3 THEN "Live" ELSE "Die"

LifeRule(cell, live_neighbors) ==
    IF cell = "Alive"
    THEN IF live_neighbors \in 2..3 THEN "Live" ELSE "Die"
    ELSE IF live_neighbors = 3 THEN "Live" ELSE "Die"

\* (new_y, new_x) for the k-th offset
NeighborSlot(cb, slot, k) ==
    << add_mod_n(USize(slot[1]), NeighborOffsets[k][1], USize(cb.height)),
       add_mod_n(USize(slot[2]), NeighborOffsets[k][2], USize(cb.width)) >>

\* a wrap or a lookup of get_action panics
get_action_panics(cb, slot) ==
    \/ \E k \in DOMAIN NeighborOffsets :
          LET n == NeighborSlot(cb, slot, k)
          IN  \/ n[1].panic
              \/ n[2].panic
              \/ ~InBounds(cb, <<n[1].val, n[2].val>>)
    \/ ~InBounds(cb, slot)

live_neighbors_ofDistinct(cb, slot) ==
    Cardinality({n \in {<<NeighborSlot(cb, slot, k)[1].val,
                          NeighborSlot(cb, slot, k)[2].val>> :
                            k \in DOMAIN NeighborOffsets} :
                    get_slot(cb, n) = "Alive"})

\* the filter over the eight offsets and its count(): one per offset whose
\* lookup is Alive
live_neighbors_of(cb, slot) ==
    Cardinality({k \in DOMAIN NeighborOffsets :
        LET n == NeighborSlot(cb, slot, k)
        IN  get_slot(cb, <<n[1].val, n[2].val>>) = "Alive"})

get_action(cb, slot) ==
    IF get_action_panics(cb, slot) THEN "Panic"
    ELSE LifeRule(get_slot(cb, slot), live_neighbors_of(cb, slot))

(***************************************************************************)
(* Game::tick: the actions of all slots are computed from the board as it  *)
(* is, collected in actions_to_apply, and only then applied.               *)
(***************************************************************************)
actions_to_apply(cb) == [slot \in Slots(cb) |-> get_action(cb, slot)]

\* the second loop of tick: every entry of the map applied to its slot
apply_all(cb, actions) ==
    [cb EXCEPT !.cells =
        [r \in 1..Len(cb.cells) |->
            [c \in 1..Len(cb.cells[r]) |->
                IF <<r - 1, c - 1>> \in DOMAIN actions
                THEN Cell_apply(cb.cells[r][c], actions[<<r - 1, c - 1>>])
                ELSE cb.cells[r][c]]]]

\* the arguments of every add_mod_n call that tick makes through get_action
wrap_calls(cb) ==
    UNION {{ <<slot[1], NeighborOffsets[k][1], cb.height>>,
             <<slot[2], NeighborOffsets[k][2], cb.width>> } :
           slot \in Slots(cb), k \in DOMAIN NeighborOffsets}

\* self.generation += 1
NextGenerationStuck(g) == g

NextGeneration(g) == g + 1

UnchangedOthers == UNCHANGED <<overflow_checks, call, ret, file, result, views>>

\* what a call of Game::tick does to the Game
TickGame ==
    /\ tick_calls' = tick_calls + 1
    /\ LET actions == actions_to_apply(cell_board)
       IN  IF \E slot \in DOMAIN actions : actions[slot] = "Panic"
           THEN /\ panicked' = TRUE
                /\ UNCHANGED <<height, width, cells, generation>>
           ELSE /\ cells' = apply_all(cell_board, actions).cells
                /\ generation' = NextGeneration(generation)
                /\ UNCHANGED <<height, width, panicked>>

Tick ==
    /\ ~panicked
    /\ tick_calls < MaxTicks
    /\ TickGame
    /\ UnchangedOthers

(***************************************************************************)
(* Game::apply_action                                                      *)
(***************************************************************************)
\* the call apply_action(slot, action); indexing outside the vectors panics
ApplyActionAt(slot, action) ==
    /\ ~panicked
    /\ IF InBounds(cell_board, slot)
       THEN /\ cells' = apply_to_slot(cell_board, slot, action).cells
            /\ UNCHANGED <<height, width, generation, panicked>>
       ELSE /\ panicked' = TRUE
            /\ UNCHANGED <<height, width, cells, generation>>
    /\ UNCHANGED tick_calls
    /\ UnchangedOthers

ApplyAction ==
    \E slot \in (0..MaxDim) \X (0..MaxDim), action \in Action :
        ApplyActionAt(slot, action)

(***************************************************************************)
(* Game::randomize.  alive_probability is given in percent.                *)
(* rand::random_bool(p) is false for p = 0, true for p = 1, either one in  *)
(* between, and panics when p is outside [0, 1].  The loops call set_slot   *)
(* once for every slot of 0..height() x 0..width(), so the grid after them *)
(* holds one draw per cell.                                                *)
(***************************************************************************)
Probabilities == {0, 50, 100, 150}

random_boolInverted(p) == IF p = 0 THEN {TRUE} ELSE IF p = 100 THEN {FALSE} ELSE BOOLEAN

random_bool(p) == IF p = 0 THEN {FALSE} ELSE IF p = 100 THEN {TRUE} ELSE BOOLEAN

\* one random_bool(p) for every slot
Draws(h, w, p) == [1..h -> [1..w -> random_bool(p)]]

\* the grid after set_slot(slot, Alive or Dead by the draw) for every slot
randomized(h, w, draw) ==
    [r \in 1..h |-> [c \in 1..w |-> IF draw[r][c] THEN "Alive" ELSE "Dead"]]

RandomizeWithReset(p) ==
    /\ ~panicked
    /\ IF p > 100 /\ Slots(cell_board) # {}
       THEN /\ panicked' = TRUE
            /\ UNCHANGED <<height, width, cells, generation>>
       ELSE /\ \E draw \in Draws(height, width, p) :
                  cells' = randomized(height, width, draw)
            /\ generation' = 0
            /\ UNCHANGED <<height, width, panicked>>
    /\ UNCHANGED tick_calls
    /\ UnchangedOthers

\* the call randomize(p)
RandomizeWith(p) ==
    /\ ~panicked
    /\ IF p > 100 /\ Slots(cell_board) # {}
       THEN /\ panicked' = TRUE
            /\ UNCHANGED <<height, width, cells, generation>>
       ELSE /\ \E draw \in Draws(height, width, p) :
                  cells' = randomized(height, width, draw)
            /\ UNCHANGED <<height, width, generation, panicked>>
    /\ UNCHANGED tick_calls
    /\ UnchangedOthers

Randomize == \E p \in Probabilities : RandomizeWith(p)

(***************************************************************************)
(* Spec: a Game built by Game::new(h, w), then any sequence of tick,       *)
(* apply_action and randomize.                                             *)
(***************************************************************************)
NoCall == [lhs |-> USize(0), rhs |-> 0, modulo |-> USize(1)]
NoRet == [done |-> FALSE, panic |-> FALSE, val |-> 0]
NoFile == [exists |-> FALSE, chars |-> <<>>]
NoResult == [kind |-> "None", row_index |-> 0, char |-> ""]
\* Game::new returns the Game itself
NewResult == [kind |-> "Game", row_index |-> 0, char |-> ""]

\* slots_and_cells not called yet
NoItems == [calls |-> 0, ticks |-> 0, seq |-> <<>>]

\* no Game of src/main.rs
NoSimple == [cells |-> <<>>, ticks |-> 0, panicked |-> FALSE]

\* no CLI running
NoCli == [running |-> FALSE]

NoViews == items = NoItems /\ simple = NoSimple /\ cli = NoCli

Game_new(h, w) ==
    /\ height = CellBoard_new(h, w).height
    /\ width = CellBoard_new(h, w).width
    /\ cells = CellBoard_new(h, w).cells
    /\ generation = 0

Init ==
    /\ overflow_checks \in BOOLEAN
    /\ call = NoCall /\ ret = NoRet /\ file = NoFile /\ result = NewResult
    /\ \E h \in 0..MaxDim, w \in 0..MaxDim :
          /\ h * w <= MaxCells
          /\ Game_new(h, w)
    /\ tick_calls = 0
    /\ panicked = FALSE
    /\ NoViews

Next == Tick \/ ApplyAction \/ Randomize

Spec == Init /\ [][Next]_vars

(***************************************************************************)
(* SpecSeed: a Game built by Game::new(h, w), then any sequence of         *)
(* apply_action and tick.                                                  *)
(***************************************************************************)
NextSeed == Tick \/ ApplyAction

SpecSeed == Init /\ [][NextSeed]_vars

(***************************************************************************)
(* SpecEmpty: Game::new(h, w), then ticks only.                            *)
(***************************************************************************)
InitEmpty ==
    /\ overflow_checks \in BOOLEAN
    /\ call = NoCall /\ ret = NoRet /\ file = NoFile /\ result = NewResult
    /\ \E h \in 0..MaxSeedDim, w \in 0..MaxSeedDim : Game_new(h, w)
    /\ tick_calls = 0
    /\ panicked = FALSE
    /\ NoViews

SpecEmpty == InitEmpty /\ [][Tick]_vars

(***************************************************************************)
(* SpecBlock: Game::new(h, w) with h, w >= 4, four apply_action(_, Live)   *)
(* calls that place a 2x2 block with its top-left cell at any position     *)
(* (the block wraps around the edges), then ticks only.                    *)
(***************************************************************************)
BlockSlots(h, w, r, c) ==
    << <<r, c>>, <<r, (c + 1) % w>>, <<(r + 1) % h, c>>, <<(r + 1) % h, (c + 1) % w>> >>

RECURSIVE SeedLive(_, _)
SeedLive(cb, slots) ==
    IF slots = <<>> THEN cb
    ELSE SeedLive(apply_to_slot(cb, Head(slots), "Live"), Tail(slots))

InitBlock ==
    /\ overflow_checks \in BOOLEAN
    /\ call = NoCall /\ ret = NoRet /\ file = NoFile /\ result = NewResult
    /\ \E h \in 4..MaxSeedDim, w \in 4..MaxSeedDim :
       \E r \in 0..(h - 1), c \in 0..(w - 1) :
          /\ height = h
          /\ width = w
          /\ cells = SeedLive(CellBoard_new(h, w), BlockSlots(h, w, r, c)).cells
    /\ generation = 0
    /\ tick_calls = 0
    /\ panicked = FALSE
    /\ NoViews

SpecBlock == InitBlock /\ [][Tick]_vars

(***************************************************************************)
(* SpecBlinker: Game::new(h, w) with h, w >= 5, three apply_action(_, Live)*)
(* calls that place a line of three cells, lying in a row or in a column,  *)
(* with its middle cell at any position (the line wraps around the edges), *)
(* then ticks only.                                                        *)
(***************************************************************************)
BlinkerSlots(h, w, r, c, o) ==
    IF o = "row"
    THEN << <<r, (c + w - 1) % w>>, <<r, c>>, <<r, (c + 1) % w>> >>
    ELSE << <<(r + h - 1) % h, c>>, <<r, c>>, <<(r + 1) % h, c>> >>

InitBlinker ==
    /\ overflow_checks \in BOOLEAN
    /\ call = NoCall /\ ret = NoRet /\ file = NoFile /\ result = NewResult
    /\ \E h \in 5..MaxBlinkerDim, w \in 5..MaxBlinkerDim :
       \E r \in 0..(h - 1), c \in 0..(w - 1), o \in {"row", "column"} :
          /\ height = h
          /\ width = w
          /\ cells = SeedLive(CellBoard_new(h, w), BlinkerSlots(h, w, r, c, o)).cells
    /\ generation = 0
    /\ tick_calls = 0
    /\ panicked = FALSE
    /\ NoViews

SpecBlinker == InitBlinker /\ [][Tick]_vars

(***************************************************************************)
(* Properties of tick.                                                     *)
(***************************************************************************)
\* the eight neighbour offsets, {-1,0,1}^2 without (0,0)
Offsets8 == ({-1, 0, 1} \X {-1, 0, 1}) \ {<<0, 0>>}

\* the live neighbours of (r, c) in grid g of h rows and w columns, rows
\* wrapped modulo h and columns modulo w, one count per offset
LiveAround(g, h, w, r, c) ==
    Cardinality({o \in Offsets8 :
        g[((r + o[1]) % h) + 1][((c + o[2]) % w) + 1] = "Alive"})

\* Conway's rule for (r, c), read from grid g alone
AliveNext(g, h, w, r, c) ==
    \/ g[r + 1][c + 1] = "Alive" /\ LiveAround(g, h, w, r, c) \in {2, 3}
    \/ g[r + 1][c + 1] = "Dead" /\ LiveAround(g, h, w, r, c) = 3

\* C1: a tick leaves at every position (r, c) of a grid of any shape the
\* cell that Conway's rule gives for the grid before the tick: Alive iff it
\* was Alive with 2 or 3 live neighbours or Dead with exactly 3, the
\* neighbours being the eight offsets with the row wrapped modulo height and
\* the column modulo width; nothing is read from the grid being written.
TickAppliesLifeRule ==
    [][tick_calls' = tick_calls + 1 =>
        /\ ~panicked'
        /\ Len(cells') = height
        /\ \A r \in 0..(height - 1) :
              /\ Len(cells'[r + 1]) = width
              /\ \A c \in 0..(width - 1) :
                    (cells'[r + 1][c + 1] = "Alive")
                        <=> AliveNext(cells, height, width, r, c)]_vars

\* a ticked grid that is not square, whose neighbourhoods wrap in both
\* directions, with live and dead cells
TickAppliesLifeRuleWitness ==
    /\ tick_calls >= 1
    /\ height = 3 /\ width = 2
    /\ \E r \in 1..height, c \in 1..width : cells[r][c] = "Alive"
    /\ \E r \in 1..height, c \in 1..width : cells[r][c] = "Dead"

\* C2: every tick increases generation by exactly 1, whatever the grid holds
\* and however many cells change.
TickIncrementsGeneration ==
    [][tick_calls' = tick_calls + 1 => generation' = generation + 1]_vars

\* two ticks done, on a grid with live cells
TickIncrementsGenerationWitness ==
    /\ tick_calls = 2
    /\ \E r \in 1..height, c \in 1..width : cells[r][c] = "Alive"

\* C9: a grid built by Game::new and only ticked has every cell Dead.
EmptyStaysEmpty ==
    /\ ~panicked
    /\ \A r \in 1..Len(cells) : \A c \in 1..Len(cells[r]) : cells[r][c] = "Dead"

\* a grid of several rows and columns after two ticks
EmptyStaysEmptyWitness ==
    /\ tick_calls = 2
    /\ height >= 3 /\ width >= 2
    /\ Len(cells) = height /\ Len(cells[1]) = width

\* C10: a tick of a grid of at least 4x4 that holds a 2x2 block and nothing
\* else changes no cell, so the grid stays the seeded one.
BlockIsStillLife ==
    [][tick_calls' = tick_calls + 1 => (cells' = cells /\ ~panicked')]_vars

\* a ticked grid whose block lies across both wrap-around edges
BlockIsStillLifeWitness ==
    /\ tick_calls = 2
    /\ height >= 4 /\ width >= 4
    /\ cells[1][1] = "Alive" /\ cells[height][width] = "Alive"
    /\ cells[1][width] = "Alive" /\ cells[height][1] = "Alive"

\* the grid of h rows and w columns whose only live cells are the three of
\* the line through (r, c) that lies along o
LineGrid(h, w, r, c, o) ==
    [i \in 1..h |-> [j \in 1..w |->
        IF \/ o = "row" /\ i - 1 = r
                /\ j - 1 \in {(c + w - 1) % w, c, (c + 1) % w}
           \/ o = "column" /\ j - 1 = c
                /\ i - 1 \in {(r + h - 1) % h, r, (r + 1) % h}
        THEN "Alive" ELSE "Dead"]]

\* C11: on a grid of at least 5x5 seeded with a line of three live cells a
\* tick turns the line into the perpendicular line through the same middle
\* cell, a grid that differs from the one before; so the grid after one
\* tick is the perpendicular line and the grid after two ticks is the
\* seeded one again.
BlinkerHasPeriodTwo ==
    [][tick_calls' = tick_calls + 1 =>
        /\ ~panicked'
        /\ cells' # cells
        /\ \E r \in 0..(height - 1), c \in 0..(width - 1) :
              \/ /\ cells = LineGrid(height, width, r, c, "row")
                 /\ cells' = LineGrid(height, width, r, c, "column")
              \/ /\ cells = LineGrid(height, width, r, c, "column")
                 /\ cells' = LineGrid(height, width, r, c, "row")]_vars

\* two ticks done on a grid that is not square, the line lying across the
\* left and right edges of the top row
BlinkerHasPeriodTwoWitness ==
    /\ tick_calls = 2
    /\ height = 5 /\ width = 6
    /\ cells = LineGrid(height, width, 0, 0, "row")
    /\ cells[1][width] = "Alive"

(***************************************************************************)
(* Properties of apply_action.                                             *)
(***************************************************************************)
\* C12: apply_action(slot, action) with slot inside the grid leaves Alive at
\* slot for Live and Dead for Die, whatever the cell held, and changes no
\* other cell, nor generation, height or width.
ApplyActionSetsOneCell ==
    [][\A slot \in (0..MaxDim) \X (0..MaxDim), action \in Action :
          (slot[1] < height /\ slot[2] < width /\ ApplyActionAt(slot, action)) =>
             /\ ~panicked'
             /\ generation' = generation /\ height' = height /\ width' = width
             /\ Len(cells') = height
             /\ \A r \in 0..(height - 1) :
                   /\ Len(cells'[r + 1]) = width
                   /\ \A c \in 0..(width - 1) :
                         cells'[r + 1][c + 1] =
                            IF <<r, c>> # slot THEN cells[r + 1][c + 1]
                            ELSE IF action = "Live" THEN "Alive" ELSE "Dead"]_vars

\* before any tick, a 2x3 grid in which apply_action(_, Live) has set the
\* cell of row 1, column 2 and no other
ApplyActionSetsOneCellWitness ==
    /\ tick_calls = 0 /\ generation = 0 /\ ~panicked
    /\ height = 2 /\ width = 3
    /\ \A r \in 1..height, c \in 1..width :
          (cells[r][c] = "Alive") <=> (r = 2 /\ c = 3)

\* C13: on a grid with at least one row and one column neither tick nor
\* apply_action, called with any pair of non-negative integers and any
\* action, fails: the thread that owns the Game never panics.
TickAndApplyActionCannotFail ==
    (height >= 1 /\ width >= 1) => ~panicked

\* the part of C13 about tick alone: on such a grid every wrap of get_action
\* returns, its row lies in 0..height-1 and its column in 0..width-1, and
\* the tick does not panic
NeighborLookupsInRange ==
    [][(tick_calls' = tick_calls + 1 /\ height >= 1 /\ width >= 1) =>
          /\ ~panicked'
          /\ \A slot \in Slots(cell_board), k \in DOMAIN NeighborOffsets :
                LET n == NeighborSlot(cell_board, slot, k)
                IN  /\ ~n[1].panic /\ n[1].val \in 0..(height - 1)
                    /\ ~n[2].panic /\ n[2].val \in 0..(width - 1)]_vars

(***************************************************************************)
(* Properties of randomize.                                                *)
(***************************************************************************)
\* C16: randomize(0.0) leaves every cell Dead and randomize(1.0) leaves
\* every cell Alive, whatever the grid held before.
RandomizeExtremes ==
    [][/\ RandomizeWith(0) =>
             \A r \in 1..height, c \in 1..width : cells'[r][c] = "Dead"
       /\ RandomizeWith(100) =>
             \A r \in 1..height, c \in 1..width : cells'[r][c] = "Alive"]_vars

\* a 1x2 grid that has been ticked twice and holds Alive in both cells, as
\* randomize(1.0) leaves it; no tick of a 1x2 grid leaves both cells Alive
RandomizeExtremesWitness ==
    /\ tick_calls = 2 /\ ~panicked
    /\ height = 1 /\ width = 2
    /\ \A r \in 1..height, c \in 1..width : cells[r][c] = "Alive"

(***************************************************************************)
(* Properties of generation.                                               *)
(***************************************************************************)
\* C17: over any sequence of tick, apply_action and randomize, generation
\* is 0 at the start and equals the number of ticks performed before and
\* after every step; no step decreases it, and only a tick changes it, so
\* a randomize of a ticked game does not reset it.
GenerationCountsTicks ==
    [][/\ generation = tick_calls
       /\ generation' = tick_calls'
       /\ generation' >= generation
       /\ generation' # generation => tick_calls' = tick_calls + 1]_vars

\* a 1x1 grid ticked twice whose cell is Alive: a tick of a 1x1 grid leaves
\* the cell Dead, so the cell was set after the second tick
GenerationCountsTicksWitness ==
    /\ tick_calls = 2 /\ generation = 2 /\ ~panicked
    /\ height = 1 /\ width = 1
    /\ cells[1][1] = "Alive"

(***************************************************************************)
(* SpecWrap: one call of utils::add_mod_n, with usize arguments near the   *)
(* multiples of 2^31 and the offsets the engine passes.                    *)
(***************************************************************************)
LoInputs == (0..MaxLo) \cup {I32Max - k : k \in 0..MaxLo}

USizeInputs == {[hi |-> h, lo |-> l] : h \in 0..MaxHi, l \in LoInputs}

NoGame ==
    /\ height = 0 /\ width = 0 /\ cells = <<>> /\ generation = 0
    /\ tick_calls = 0 /\ panicked = FALSE
    /\ NoViews

InitWrap ==
    /\ overflow_checks \in BOOLEAN
    /\ \E i \in USizeInputs, d \in {-1, 0, 1}, m \in USizeInputs :
          call = [lhs |-> i, rhs |-> d, modulo |-> m]
    /\ ret = NoRet
    /\ file = NoFile /\ result = NoResult
    /\ NoGame

CallAddModN ==
    /\ ~ret.done
    /\ LET r == add_mod_n(call.lhs, call.rhs, call.modulo)
       IN  ret' = [done |-> TRUE, panic |-> r.panic, val |-> r.val]
    /\ UNCHANGED <<overflow_checks, call, file, result,
                   height, width, cells, generation, tick_calls, panicked,
                   views>>

SpecWrap == InitWrap /\ [][CallAddModN]_vars

\* i + 1 and i - 1 on the [hi, lo] form
USizeSucc(u) ==
    IF u.lo = I32Max THEN [hi |-> u.hi + 1, lo |-> 0] ELSE [hi |-> u.hi, lo |-> u.lo + 1]
USizePred(u) ==
    IF u.lo = 0 THEN [hi |-> u.hi - 1, lo |-> I32Max] ELSE [hi |-> u.hi, lo |-> u.lo - 1]

\* (i + d) mod m for 0 <= i < m and d in {-1, 0, 1}
EuclidWrap(i, d, m) ==
    IF d = 0 THEN i
    ELSE IF d = 1 THEN (IF USizeSucc(i) = m THEN USize(0) ELSE USizeSucc(i))
    ELSE (IF i = USize(0) THEN USizePred(m) ELSE USizePred(i))

\* the call returned the Euclidean (lhs + rhs) mod modulo
ReturnsEuclidWrap ==
    /\ ~ret.panic
    /\ USize(ret.val) = EuclidWrap(call.lhs, call.rhs, call.modulo)
    /\ USizeLess(USize(ret.val), call.modulo)
    /\ (call.lhs.hi = 0 /\ call.modulo.hi = 0)
          => ret.val = (call.lhs.lo + call.rhs) % call.modulo.lo

\* C3: for every modulus m >= 1, every i in [0, m) and every offset d in
\* {-1, 0, 1}, add_mod_n(i, d, m) returns (i + d) mod m, a value in [0, m).
AddModNIsEuclidean ==
    (ret.done /\ USizeLess(call.lhs, call.modulo)) => ReturnsEuclidWrap

\* The same for the moduli an i32 holds, m <= 2^31 - 1: there the casts keep
\* every value and the sum cannot overflow.
AddModNIsEuclideanInI32 ==
    (ret.done /\ USizeLess(call.lhs, call.modulo) /\ call.modulo.hi = 0)
        => ReturnsEuclidWrap

\* add_mod_n(0, -1, 20) = 19 and add_mod_n(19, 1, 20) = 0 have been computed
AddModNExamples ==
    /\ (ret.done /\ call = [lhs |-> USize(0), rhs |-> -1, modulo |-> USize(20)])
          => (~ret.panic /\ ret.val = 19)
    /\ (ret.done /\ call = [lhs |-> USize(19), rhs |-> 1, modulo |-> USize(20)])
          => (~ret.panic /\ ret.val = 0)

(***************************************************************************)
(* CellBoard::from_file.  The file is a sequence of characters; "U+00E9"   *)
(* stands for a character that takes two bytes in UTF-8 and "0xFF" for a   *)
(* byte that is not valid UTF-8.                                           *)
(***************************************************************************)
Alphabet == {"X", "O", "A", "U+00E9", "\n", "\r", "0xFF"}

\* the bytes a character takes in the String
ByteLen(c) == IF c = "U+00E9" THEN 2 ELSE 1

\* String::len of a line: its length in bytes
RECURSIVE line_len(_)
line_len(line) ==
    IF line = <<>> THEN 0 ELSE ByteLen(Head(line)) + line_len(Tail(line))

\* a line that ended in "\n" also loses a "\r" before it
StripCR(line) ==
    IF line # <<>> /\ line[Len(line)] = "\r" THEN SubSeq(line, 1, Len(line) - 1) ELSE line

\* BufRead::lines: the text cut at every "\n"; what follows the last "\n"
\* is a line only when it is not empty
RECURSIVE SplitLines(_, _)
SplitLines(chars, cur) ==
    IF chars = <<>> THEN (IF cur = <<>> THEN <<>> ELSE <<cur>>)
    ELSE IF Head(chars) = "\n" THEN <<StripCR(cur)>> \o SplitLines(Tail(chars), <<>>)
    ELSE SplitLines(Tail(chars), Append(cur, Head(chars)))

Lines(chars) == SplitLines(chars, <<>>)

\* a line whose bytes are not UTF-8 is yielded as Err
LineIsErr(line) == \E k \in 1..Len(line) : line[k] = "0xFF"

\* the results of the constructor
OkResult == [kind |-> "Ok", row_index |-> 0, char |-> ""]
FileError == [kind |-> "FileError", row_index |-> 0, char |-> ""]
RowLengthMismatchFromOne(i) ==
    [kind |-> "RowLengthMismatch", row_index |-> i + 1, char |-> ""]

RowLengthMismatch(i) == [kind |-> "RowLengthMismatch", row_index |-> i, char |-> ""]
UnrecognizedCharacter(c) == [kind |-> "UnrecognizedCharacter", row_index |-> 0, char |-> c]
EmptyRow == [kind |-> "EmptyRow", row_index |-> 0, char |-> ""]

\* the match on a character of a line
CellOfCharSwapped(c) == IF c = "X" THEN "Dead" ELSE "Alive"

CellOfChar(c) == IF c = "X" THEN "Alive" ELSE "Dead"

RecognizedWithA(c) == c \in {"X", "O", "A"}

Recognized(c) == c \in {"X", "O"}

\* the first character of the line that is neither 'X' nor 'O'
FirstUnrecognized(line) ==
    line[CHOOSE k \in 1..Len(line) :
            /\ ~Recognized(line[k])
            /\ \A j \in 1..(k - 1) : Recognized(line[j])]

line_checksCharactersFirst(line, i, row_length) ==
    IF \E k \in 1..Len(line) : ~Recognized(line[k])
    THEN UnrecognizedCharacter(FirstUnrecognized(line))
    ELSE IF row_length.some /\ line_len(line) # row_length.len
    THEN RowLengthMismatch(i)
    ELSE IF row_length.some /\ row_length.len = 0
    THEN EmptyRow
    ELSE OkResult

\* the body of the loop for the line of index i, in the order of its early
\* returns: the match on row_length, then the loop over line.chars();
\* OkResult when the line is pushed
line_checks(line, i, row_length) ==
    IF row_length.some /\ line_len(line) # row_length.len
    THEN RowLengthMismatch(i)
    ELSE IF row_length.some /\ row_length.len = 0
    THEN EmptyRow
    ELSE IF \E k \in 1..Len(line) : ~Recognized(line[k])
    THEN UnrecognizedCharacter(FirstUnrecognized(line))
    ELSE OkResult

\* the loop over reader.lines().enumerate(), from the line of index i on;
\* row_length is [some, len] for the Option, row_vec the rows pushed so far
RECURSIVE from_file_loop(_, _, _, _)
from_file_loop(lines, i, row_length, row_vec) ==
    IF i >= Len(lines)
    THEN [res |-> OkResult,
          board |-> [height |-> Len(row_vec),
                     width |-> IF row_length.some THEN row_length.len ELSE 0,
                     cells |-> row_vec]]
    ELSE LET line == lines[i + 1]
             line_length == line_len(line)
         IN  IF LineIsErr(line)
             THEN [res |-> FileError, board |-> CellBoard_new(0, 0)]
             ELSE IF line_checks(line, i, row_length) # OkResult
             THEN [res |-> line_checks(line, i, row_length),
                   board |-> CellBoard_new(0, 0)]
             ELSE from_file_loop(lines, i + 1,
                     IF row_length.some THEN row_length
                     ELSE [some |-> TRUE, len |-> line_length],
                     Append(row_vec, [k \in 1..Len(line) |-> CellOfChar(line[k])]))

CellBoard_from_file(f) ==
    IF ~f.exists
    THEN [res |-> FileError, board |-> CellBoard_new(0, 0)]
    ELSE from_file_loop(Lines(f.chars), 0, [some |-> FALSE, len |-> 0], <<>>)

(***************************************************************************)
(* SpecLoad: nothing is built yet; Game::new or Game::from_file builds the *)
(* Game, or from_file returns an error and no Game.                        *)
(***************************************************************************)
Texts == UNION {[1..n -> Alphabet] : n \in 0..MaxTextLen}

Files == {NoFile} \cup {[exists |-> TRUE, chars |-> t] : t \in Texts}

InitLoad ==
    /\ overflow_checks \in BOOLEAN
    /\ call = NoCall /\ ret = NoRet
    /\ file = NoFile /\ result = NoResult
    /\ NoGame

GameNew ==
    /\ result.kind = "None"
    /\ \E h \in 0..MaxDim, w \in 0..MaxDim :
          /\ height' = CellBoard_new(h, w).height
          /\ width' = CellBoard_new(h, w).width
          /\ cells' = CellBoard_new(h, w).cells
    /\ generation' = 0
    /\ result' = NewResult
    /\ UNCHANGED <<overflow_checks, call, ret, file, tick_calls, panicked, views>>

GameFromFile ==
    /\ result.kind = "None"
    /\ \E f \in Files :
          LET loaded == CellBoard_from_file(f)
          IN  /\ file' = f
              /\ result' = loaded.res
              /\ IF loaded.res.kind = "Ok"
                 THEN /\ height' = loaded.board.height
                      /\ width' = loaded.board.width
                      /\ cells' = loaded.board.cells
                      /\ generation' = 0
                 ELSE UNCHANGED <<height, width, cells, generation>>
    /\ UNCHANGED <<overflow_checks, call, ret, tick_calls, panicked, views>>

NextLoad == GameNew \/ GameFromFile

SpecLoad == InitLoad /\ [][NextLoad]_vars

(***************************************************************************)
(* Properties of pattern loading, stated on the rows of the file: the      *)
(* lines that reader.lines() yields.                                       *)
(***************************************************************************)
Rows == Lines(file.chars)

\* from_file has returned
Loaded == result.kind \notin {"None", "Game"}

\* the file opens and all of it is valid UTF-8
Readable == file.exists /\ \A k \in 1..Len(file.chars) : file.chars[k] # "0xFF"

IsXO(c) == c = "X" \/ c = "O"

RowIsXO(row) == \A k \in 1..Len(row) : IsXO(row[k])

\* no Game was returned
NoGrid ==
    /\ result.kind \notin {"Ok", "Game"}
    /\ height = 0 /\ width = 0 /\ cells = <<>>

\* C4: a successful load gives a Game of generation 0 with one row of cells
\* per row of the file and one cell per character, Alive exactly for 'X'.
LoadBuildsGrid ==
    result.kind = "Ok" =>
        /\ generation = 0
        /\ height = Len(Rows)
        /\ Len(cells) = Len(Rows)
        /\ \A r \in 1..Len(Rows) :
              /\ RowIsXO(Rows[r])
              /\ Len(Rows[r]) = width
              /\ Len(cells[r]) = width
              /\ \A c \in 1..width : (cells[r][c] = "Alive") <=> (Rows[r][c] = "X")

\* the rows "XO", "OX" loaded: a 2x2 grid alive on the diagonal
LoadBuildsGridWitness ==
    /\ result.kind = "Ok"
    /\ Rows = << <<"X", "O">>, <<"O", "X">> >>
    /\ cells = << <<"Alive", "Dead">>, <<"Dead", "Alive">> >>
    /\ height = 2 /\ width = 2 /\ generation = 0

\* some row differs in length (in bytes) from the first row
Ragged == \E j \in 2..Len(Rows) : line_len(Rows[j]) # line_len(Rows[1])

\* the first such row, counted from 1
FirstRagged ==
    CHOOSE j \in 2..Len(Rows) :
        /\ line_len(Rows[j]) # line_len(Rows[1])
        /\ \A i \in 2..(j - 1) : line_len(Rows[i]) = line_len(Rows[1])

\* C5 as stated: loading a pattern in which some row's length differs from
\* the first row's returns RowLengthMismatch with the index of the first
\* such row, and no grid.
RaggedRowIsReported ==
    (Loaded /\ Readable /\ Ragged) =>
        (/\ result.kind = "RowLengthMismatch"
         /\ result.row_index = FirstRagged - 1
         /\ NoGrid)

\* C5 as amended: the same, provided no row before the first row of a
\* different length (in bytes) holds a character other than 'X' and 'O', and
\* the first two rows are not both empty.
RaggedRowIsReportedFirst ==
    (/\ Loaded /\ Readable /\ Ragged
     /\ \A i \in 1..(FirstRagged - 1) : RowIsXO(Rows[i])
     /\ ~(Len(Rows) >= 2 /\ Rows[1] = <<>> /\ Rows[2] = <<>>))
        => (/\ result.kind = "RowLengthMismatch"
            /\ result.row_index = FirstRagged - 1
            /\ NoGrid)

\* the rows "XX", "X" loaded: RowLengthMismatch with row_index 1
RaggedRowWitness ==
    /\ Rows = << <<"X", "X">>, <<"X">> >>
    /\ result.kind = "RowLengthMismatch"
    /\ result.row_index = 1
    /\ NoGrid

\* some row holds a character other than 'X' and 'O'
Offending == \E r \in 1..Len(Rows) : ~RowIsXO(Rows[r])

\* the first such row, counted from 1
FirstOffendingRow ==
    CHOOSE r \in 1..Len(Rows) :
        ~RowIsXO(Rows[r]) /\ \A i \in 1..(r - 1) : RowIsXO(Rows[i])

\* the first such character in row-major order
FirstOffendingChar ==
    LET row == Rows[FirstOffendingRow]
    IN  row[CHOOSE k \in 1..Len(row) :
                ~IsXO(row[k]) /\ \A j \in 1..(k - 1) : IsXO(row[j])]

\* C6 as stated: loading a pattern that holds a character other than 'X'
\* and 'O' returns UnrecognizedCharacter with the first such character in
\* row-major order, and no grid.
OffendingCharIsReported ==
    (Loaded /\ Readable /\ Offending) =>
        (/\ result.kind = "UnrecognizedCharacter"
         /\ result.char = FirstOffendingChar
         /\ NoGrid)

\* C6 as amended: the same, provided every row up to and including the one
\* that holds the first such character has the length (in bytes) of the
\* first row.
OffendingCharIsReportedFirst ==
    (/\ Loaded /\ Readable /\ Offending
     /\ \A i \in 1..FirstOffendingRow : line_len(Rows[i]) = line_len(Rows[1]))
        => (/\ result.kind = "UnrecognizedCharacter"
            /\ result.char = FirstOffendingChar
            /\ NoGrid)

\* a single row of 'X', 'A' and a two-byte character: the 'A' is reported
OffendingCharWitness ==
    /\ Len(Rows) = 1
    /\ Rows[1] = <<"X", "A", "U+00E9">>
    /\ result.kind = "UnrecognizedCharacter"
    /\ result.char = "A"
    /\ NoGrid

\* C7: a pattern with a zero-length row among non-empty rows is refused with
\* EmptyRow.  Stated for the patterns whose first fault is the empty row:
\* the rows before it are non-empty, of one length and made of 'X' and 'O'.
EmptyRowIsReported ==
    (/\ Loaded /\ Readable
     /\ \E j \in 1..Len(Rows) :
           /\ Rows[j] = <<>>
           /\ \E i \in 1..Len(Rows) : Rows[i] # <<>>
           /\ \A i \in 1..(j - 1) :
                 /\ Rows[i] # <<>>
                 /\ RowIsXO(Rows[i])
                 /\ Len(Rows[i]) = Len(Rows[1]))
        => result.kind = "EmptyRow"

\* row r (counted from 1) differs in length (in bytes) from the first row
RowIsRagged(r) == line_len(Rows[r]) # line_len(Rows[1])

\* row r is empty, differs in length from the first row, or holds a
\* character other than 'X' and 'O'
RowIsFaulty(r) == Rows[r] = <<>> \/ RowIsRagged(r) \/ ~RowIsXO(Rows[r])

\* the first such row, counted from 1
FirstFaultyRow ==
    CHOOSE r \in 1..Len(Rows) :
        RowIsFaulty(r) /\ \A i \in 1..(r - 1) : ~RowIsFaulty(i)

\* the first character of row r other than 'X' and 'O'
FirstOffendingCharOf(r) ==
    Rows[r][CHOOSE k \in 1..Len(Rows[r]) :
                ~IsXO(Rows[r][k]) /\ \A j \in 1..(k - 1) : IsXO(Rows[r][j])]

\* C24: loading reports the first faulty row, and in that row the length
\* before the characters.  If the first faulty row has the length of the
\* first row and holds a character other than 'X' and 'O', the result is
\* UnrecognizedCharacter with that row's first such character, whatever the
\* lengths of the rows after it; if it is a non-empty row of another length,
\* the result is RowLengthMismatch with that row's index (from 0), whether
\* or not it also holds such a character; and every result that is an error
\* comes with no grid.
LengthCheckedBeforeCharacters ==
    Loaded =>
        /\ result.kind # "Ok" => NoGrid
        /\ (Readable /\ \E r \in 1..Len(Rows) : RowIsFaulty(r)) =>
              LET i == FirstFaultyRow
              IN  /\ (~RowIsRagged(i) /\ ~RowIsXO(Rows[i])) =>
                        /\ result.kind = "UnrecognizedCharacter"
                        /\ result.char = FirstOffendingCharOf(i)
                  /\ (RowIsRagged(i) /\ Rows[i] # <<>>) =>
                        /\ result.kind = "RowLengthMismatch"
                        /\ result.row_index = i - 1

\* the rows "X", "AA" loaded: the second row has another length and holds
\* 'A'; RowLengthMismatch with row_index 1 and no grid
LengthCheckedBeforeCharactersWitness ==
    /\ Rows = << <<"X">>, <<"A", "A">> >>
    /\ result.kind = "RowLengthMismatch"
    /\ result.row_index = 1
    /\ NoGrid

\* the rows "A", "XX" loaded: the first row holds 'A' and a later row has
\* another length; UnrecognizedCharacter('A') and no grid
CharacterBeforeLaterLength ==
    /\ Rows = << <<"A">>, <<"X", "X">> >>
    /\ result.kind = "UnrecognizedCharacter"
    /\ result.char = "A"
    /\ NoGrid

\* C8: every Game that Game::new or a successful Game::from_file returns has
\* height >= 1 and width >= 1.
DimensionsArePositive ==
    result.kind \in {"Game", "Ok"} => (height >= 1 /\ width >= 1)

(***************************************************************************)
(* SpecGame: a Game built by Game::new(h, w) or by a Game::from_file that  *)
(* returned Ok, then any sequence of tick, apply_action and randomize.     *)
(***************************************************************************)
InitLoaded ==
    /\ overflow_checks \in BOOLEAN
    /\ call = NoCall /\ ret = NoRet
    /\ \E f \in {g \in Files : Len(g.chars) <= MaxLoadedLen} :
          LET loaded == CellBoard_from_file(f)
          IN  /\ loaded.res.kind = "Ok"
              /\ file = f
              /\ result = loaded.res
              /\ height = loaded.board.height
              /\ width = loaded.board.width
              /\ cells = loaded.board.cells
    /\ generation = 0
    /\ tick_calls = 0
    /\ panicked = FALSE
    /\ NoViews

InitGame == Init \/ InitLoaded

SpecGame == InitGame /\ [][Next]_vars

\* the matrix has height rows of width cells each
Rectangular ==
    /\ Len(cells) = height
    /\ \A r \in 1..Len(cells) :
          /\ Len(cells[r]) = width
          /\ \A c \in 1..Len(cells[r]) : cells[r][c] \in {"Dead", "Alive"}

\* C14: the grid a constructor returned has height rows of width cells, and
\* every tick, apply_action and randomize leaves height and width as they
\* were and the matrix with height rows of width cells; so every reachable
\* grid has the shape and the dimensions it was constructed with.
GridShapeIsFixed ==
    [][/\ Rectangular
       /\ Rectangular'
       /\ height' = height
       /\ width' = width]_vars

\* a grid loaded from a file of two rows, ticked twice, with live and dead
\* cells
GridShapeIsFixedWitness ==
    /\ result.kind = "Ok"
    /\ tick_calls = 2
    /\ height = 2 /\ width = 1
    /\ Rectangular
    /\ cells[1][1] = "Alive" /\ cells[2][1] = "Dead"

\* C19: a tick of a grid with height 0 or width 0 visits no slot, so it
\* makes no add_mod_n call (none with modulus 0) and indexes no cell; it
\* does not panic, leaves the grid as it is and adds 1 to generation.
TickOfEmptyGrid ==
    [][(tick_calls' = tick_calls + 1 /\ (height = 0 \/ width = 0)) =>
          /\ Slots(cell_board) = {}
          /\ \A c \in wrap_calls(cell_board) : c[3] # 0
          /\ ~panicked'
          /\ cells' = cells /\ height' = height /\ width' = width
          /\ generation' = generation + 1]_vars

\* two ticks done on the grid loaded from an empty file
TickOfEmptyGridWitness ==
    /\ file.exists /\ file.chars = <<>> /\ result.kind = "Ok"
    /\ tick_calls = 2 /\ generation = 2 /\ ~panicked
    /\ height = 0 /\ width = 0
    /\ cells = <<>>

(***************************************************************************)
(* Game::slots_and_cells: (0..height()).flat_map(|y| (0..width()).map(|x|  *)
(* (Slot(y, x), get_slot(Slot(y, x))))), collected into a sequence.        *)
(***************************************************************************)
\* the inner map of row y
row_itemsReversed(cb, y) ==
    [x \in 1..cb.width |->
        << <<y, cb.width - x>>, get_slot(cb, <<y, cb.width - x>>) >>]

row_items(cb, y) ==
    [x \in 1..cb.width |-> << <<y, x - 1>>, get_slot(cb, <<y, x - 1>>) >>]

\* the flat_map over the rows y, y + 1, ..., height() - 1
RECURSIVE flat_map_from(_, _)
flat_map_from(cb, y) ==
    IF y >= cb.height THEN <<>>
    ELSE row_items(cb, y) \o flat_map_from(cb, y + 1)

slots_and_cells(cb) == flat_map_from(cb, 0)

\* a caller collects the iterator; it borrows the Game immutably
SlotsAndCells ==
    /\ ~panicked
    /\ items.calls < MaxCalls
    /\ items' = [calls |-> items.calls + 1,
                 ticks |-> tick_calls,
                 seq |-> slots_and_cells(cell_board)]
    /\ UNCHANGED <<overflow_checks, call, ret, file, result,
                   height, width, cells, generation, tick_calls, panicked,
                   simple, cli>>

(***************************************************************************)
(* SpecRender: Game::new(h, w).randomize(p), as the binaries build their   *)
(* Game, then any sequence of tick and slots_and_cells.                    *)
(***************************************************************************)
InitRandom ==
    /\ overflow_checks \in BOOLEAN
    /\ call = NoCall /\ ret = NoRet /\ file = NoFile /\ result = NewResult
    /\ \E h \in 0..MaxDim, w \in 0..MaxDim :
          /\ h * w <= MaxCells
          /\ height = h
          /\ width = w
          /\ \E p \in Probabilities \ {150} :
             \E draw \in Draws(h, w, p) : cells = randomized(h, w, draw)
    /\ generation = 0
    /\ tick_calls = 0
    /\ panicked = FALSE
    /\ NoViews

NextRender == Tick \/ SlotsAndCells

SpecRender == InitRandom /\ [][NextRender]_vars

\* C15: a call of slots_and_cells yields height * width pairs, the pair of
\* position (r, c) being item r * width + c (counted from 0) and holding
\* the cell the grid has there; it changes nothing of the game; and a
\* second call with no tick in between yields the same sequence.
SlotsAndCellsIsRowMajor ==
    [][items'.calls = items.calls + 1 =>
        /\ Len(items'.seq) = height * width
        /\ \A r \in 0..(height - 1), c \in 0..(width - 1) :
              items'.seq[r * width + c + 1] = << <<r, c>>, cells[r + 1][c + 1] >>
        /\ cells' = cells /\ height' = height /\ width' = width
        /\ generation' = generation /\ ~panicked'
        /\ (items.calls >= 1 /\ items.ticks = tick_calls) =>
              items'.seq = items.seq]_vars

\* the second of two calls made after the same tick, on a 2x3 grid with
\* live and dead cells
SlotsAndCellsIsRowMajorWitness ==
    /\ items.calls = 2 /\ items.ticks = 1 /\ tick_calls = 1
    /\ height = 2 /\ width = 3
    /\ Len(items.seq) = 6
    /\ items.seq[6] = << <<1, 2>>, "Alive" >>
    /\ items.seq[2][2] = "Dead"

\* C23: the neighbour count is one per offset, so a cell reached by several
\* offsets is counted once for each: on a 1x1 grid an Alive cell counts 8
\* and a Dead one 0, and the cell is Dead after the tick either way; on a
\* 2x2 grid with every cell Alive every cell counts 8 and every cell is
\* Dead after the tick.
NeighborsCountedPerOffset ==
    [][tick_calls' = tick_calls + 1 =>
        /\ (height = 1 /\ width = 1) =>
              /\ live_neighbors_of(cell_board, <<0, 0>>) =
                    (IF cells[1][1] = "Alive" THEN 8 ELSE 0)
              /\ ~panicked'
              /\ cells' = << <<"Dead">> >>
        /\ (/\ height = 2 /\ width = 2
            /\ \A r \in 1..2, c \in 1..2 : cells[r][c] = "Alive") =>
              /\ \A slot \in Slots(cell_board) :
                    live_neighbors_of(cell_board, slot) = 8
              /\ ~panicked'
              /\ cells' = << <<"Dead", "Dead">>, <<"Dead", "Dead">> >>]_vars

\* a 2x2 grid read by slots_and_cells with every cell Alive before its
\* first tick, and with every cell Dead after that tick
NeighborsCountedPerOffsetWitness ==
    /\ height = 2 /\ width = 2
    /\ items.calls = 1 /\ items.ticks = 0
    /\ \A i \in 1..4 : items.seq[i][2] = "Alive"
    /\ tick_calls = 1
    /\ ~panicked
    /\ cells = << <<"Dead", "Dead">>, <<"Dead", "Dead">> >>

(***************************************************************************)
(* The engine of src/main.rs: Game { cells }, with no height, width or     *)
(* generation.  get_action wraps the row and the column by the number of   *)
(* rows; tick loops over 0..cells.len() x 0..cells[0].len().               *)
(***************************************************************************)
simple_offsetsMissingOne ==
    << <<0, 1>>, <<-1, 1>>, <<-1, 0>>, <<-1, -1>>,
       <<0, -1>>, <<1, -1>>, <<1, 0>> >>

simple_offsets ==
    << <<0, 1>>, <<-1, 1>>, <<-1, 0>>, <<-1, -1>>,
       <<0, -1>>, <<1, -1>>, <<1, 0>>, <<1, 1>> >>

\* the match on the cell and its live_neighbors
simple_rule(cell, live_neighbors) ==
    IF cell = "Alive"
    THEN IF live_neighbors \in 2..3 THEN "Live" ELSE "Die"
    ELSE IF live_neighbors = 3 THEN "Live" ELSE "Die"

\* whether sc[row][col] is an element of the vectors (else indexing panics)
simple_in_bounds(sc, row, col) ==
    /\ row < Len(sc)
    /\ col < Len(sc[row + 1])

\* (new_y, new_x) for the k-th offset, both wrapped by modulo = cells.len()
simple_neighbor(sc, slot, k) ==
    << add_mod_n(USize(slot[1]), simple_offsets[k][1], USize(Len(sc))),
       add_mod_n(USize(slot[2]), simple_offsets[k][2], USize(Len(sc))) >>

simple_get_action(sc, slot) ==
    IF \/ \E k \in DOMAIN simple_offsets :
             LET n == simple_neighbor(sc, slot, k)
             IN  \/ n[1].panic
                 \/ n[2].panic
                 \/ ~simple_in_bounds(sc, n[1].val, n[2].val)
       \/ ~simple_in_bounds(sc, slot[1], slot[2])
    THEN "Panic"
    ELSE LET live_neighbors ==
                 Cardinality({k \in DOMAIN simple_offsets :
                     LET n == simple_neighbor(sc, slot, k)
                     IN  sc[n[1].val + 1][n[2].val + 1] = "Alive"})
         IN  simple_rule(sc[slot[1] + 1][slot[2] + 1], live_neighbors)

\* the slots of the two loops; cells[0] is read only when there is a row
simple_slots(sc) ==
    IF Len(sc) = 0 THEN {}
    ELSE (0..(Len(sc) - 1)) \X (0..(Len(sc[1]) - 1))

\* tick: the actions of all slots are collected, then applied
simple_tick(sc) ==
    LET actions == [slot \in simple_slots(sc) |-> simple_get_action(sc, slot)]
    IN  IF \E slot \in DOMAIN actions : actions[slot] = "Panic"
        THEN [panic |-> TRUE, cells |-> sc]
        ELSE [panic |-> FALSE,
              cells |-> [r \in 1..Len(sc) |-> [c \in 1..Len(sc[r]) |->
                            IF <<r - 1, c - 1>> \in DOMAIN actions
                            THEN Cell_apply(sc[r][c], actions[<<r - 1, c - 1>>])
                            ELSE sc[r][c]]]]

SimpleTick ==
    /\ ~simple.panicked
    /\ simple.ticks < MaxTicks
    /\ LET t == simple_tick(simple.cells)
       IN  simple' = [cells |-> t.cells,
                      ticks |-> simple.ticks + 1,
                      panicked |-> t.panic]
    /\ UNCHANGED <<overflow_checks, call, ret, file, result,
                   height, width, cells, generation, tick_calls, panicked,
                   items, cli>>

(***************************************************************************)
(* SpecPair: the Game of src/lib.rs and the Game of src/main.rs, both      *)
(* built by new(h, w) and filled with the same cells, ticked in turn: the  *)
(* Game of src/lib.rs first, then the Game of src/main.rs.  The two share  *)
(* nothing, so the order of their ticks does not matter.                   *)
(***************************************************************************)
InitPair ==
    /\ overflow_checks \in BOOLEAN
    /\ call = NoCall /\ ret = NoRet /\ file = NoFile /\ result = NewResult
    /\ \E h \in 0..MaxDim, w \in 0..MaxDim :
          /\ h * w <= MaxCells
          /\ height = h
          /\ width = w
          /\ \E p \in Probabilities \ {150} :
             \E draw \in Draws(h, w, p) :
                /\ cells = randomized(h, w, draw)
                /\ simple = [cells |-> randomized(h, w, draw),
                             ticks |-> 0, panicked |-> FALSE]
    /\ generation = 0
    /\ tick_calls = 0
    /\ panicked = FALSE
    /\ items = NoItems
    /\ cli = NoCli

NextPair ==
    \/ simple.ticks = tick_calls /\ Tick
    \/ simple.ticks < tick_calls /\ SimpleTick

SpecPair == InitPair /\ [][NextPair]_vars

\* C20: on a square grid with at least one row, after the same number of
\* ticks from the same cells, the engine of src/main.rs holds the same
\* grid as the engine of src/lib.rs, and neither has panicked.
SimpleEngineAgreesOnSquares ==
    (height = width /\ height >= 1 /\ simple.ticks = tick_calls) =>
        /\ simple.cells = cells
        /\ ~simple.panicked
        /\ ~panicked

\* both engines ticked twice on a 3x3 grid that still has live and dead
\* cells
SimpleEngineAgreesOnSquaresWitness ==
    /\ height = 3 /\ width = 3
    /\ simple.ticks = 2 /\ tick_calls = 2
    /\ simple.cells = cells
    /\ \E r \in 1..3, c \in 1..3 : cells[r][c] = "Alive"
    /\ \E r \in 1..3, c \in 1..3 : cells[r][c] = "Dead"

\* on grids that are not square the two engines part: the engine of
\* src/main.rs panics, or holds another grid after the same ticks
EnginesPartOffSquares ==
    /\ height # width /\ simple.ticks = tick_calls
    /\ simple.panicked \/ simple.cells # cells

(***************************************************************************)
(* The CLI (src/bin/cli/main.rs).  A Speed is "Paused" or the variant v of *)
(* Unpaused(v); an UpdateEvent is "Tick" or the UserAction of Input(_),    *)
(* RegulateSpeed(a) being written as a.                                    *)
(***************************************************************************)
SpeedVariant == {"Slow", "Normal", "Fast"}
SpeedAction == {"Increase", "Decrease"}
UserAction == {"Quit", "TogglePause"} \cup SpeedAction

SpeedVariant_regulate(v, speed_action) ==
    IF speed_action = "Increase"
    THEN IF v = "Slow" THEN "Normal" ELSE IF v = "Normal" THEN "Fast" ELSE v
    ELSE IF v = "Normal" THEN "Slow" ELSE IF v = "Fast" THEN "Normal" ELSE v

Speed_regulate(speed, speed_action) ==
    IF speed = "Paused" THEN speed
    ELSE SpeedVariant_regulate(speed, speed_action)

\* toggle_pause(Some(speed_when_unpaused))
Speed_toggle_pause(speed, speed_when_unpaused) ==
    IF speed = "Paused" THEN speed_when_unpaused ELSE "Paused"

\* GameWidget::new(game, speed) and the state main has when it enters its
\* loop: both channels empty, handle_tick started with speed, nothing drawn
GameWidget_new(speed) ==
    [running |-> TRUE,
     main_pc |-> "draw",
     speed |-> speed,
     speed_when_unpaused |-> IF speed = "Paused" THEN "Normal" ELSE speed,
     update_rx |-> <<>>,
     speed_rx |-> <<>>,
     timer_speed |-> speed,
     ticks_sent |-> 0,
     keys_read |-> 0,
     initial |-> cells,
     frame |-> [drawn |-> FALSE, generation |-> 0, items |-> <<>>, speed |-> speed]]

\* GameWidget::regulate_speed
GameWidget_regulate_speed(widget, speed_action) ==
    [widget EXCEPT !.speed = Speed_regulate(@, speed_action)]

GameWidget_toggle_pauseKeepsOld(widget) ==
    [widget EXCEPT
        !.speed = Speed_toggle_pause(widget.speed, widget.speed_when_unpaused)]

\* GameWidget::toggle_pause: an Unpaused speed is stored in
\* speed_when_unpaused first
GameWidget_toggle_pause(widget) ==
    LET speed_when_unpaused ==
            IF widget.speed # "Paused" THEN widget.speed
            ELSE widget.speed_when_unpaused
    IN  [widget EXCEPT
            !.speed_when_unpaused = speed_when_unpaused,
            !.speed = Speed_toggle_pause(widget.speed, speed_when_unpaused)]

GameUnchanged == UNCHANGED <<height, width, cells, generation, tick_calls, panicked>>

CliOthers == UNCHANGED <<overflow_checks, call, ret, file, result, items, simple>>

\* terminal.draw(|frame| game_widget.draw(frame)): render reads generation(),
\* the speed and slots_and_cells()
CliDraw ==
    /\ cli.running /\ ~panicked
    /\ cli.main_pc = "draw"
    /\ cli' = [cli EXCEPT !.main_pc = "recv",
                          !.frame = [drawn |-> TRUE,
                                     generation |-> generation,
                                     items |-> slots_and_cells(cell_board),
                                     speed |-> cli.speed]]
    /\ GameUnchanged
    /\ CliOthers

\* update_rx.recv() returned event
Received(event) ==
    /\ cli.running /\ ~panicked
    /\ cli.main_pc = "recv"
    /\ cli.update_rx # <<>>
    /\ Head(cli.update_rx) = event

\* UpdateEvent::Tick => game_widget.tick()
MainTick ==
    /\ Received("Tick")
    /\ TickGame
    /\ cli' = [cli EXCEPT !.main_pc = "draw", !.update_rx = Tail(@)]
    /\ CliOthers

\* UserAction::Quit => break
MainQuit ==
    /\ Received("Quit")
    /\ cli' = [cli EXCEPT !.running = FALSE, !.update_rx = Tail(@)]
    /\ GameUnchanged
    /\ CliOthers

\* UserAction::RegulateSpeed(speed_action)
MainRegulateSpeed ==
    /\ \E speed_action \in SpeedAction :
          /\ Received(speed_action)
          /\ LET widget == GameWidget_regulate_speed(cli, speed_action)
             IN  cli' = [widget EXCEPT !.main_pc = "draw",
                                      !.update_rx = Tail(@),
                                      !.speed_rx = Append(@, widget.speed)]
    /\ GameUnchanged
    /\ CliOthers

\* UserAction::TogglePause
MainTogglePause ==
    /\ Received("TogglePause")
    /\ LET widget == GameWidget_toggle_pause(cli)
       IN  cli' = [widget EXCEPT !.main_pc = "draw",
                                !.update_rx = Tail(@),
                                !.speed_rx = Append(@, widget.speed)]
    /\ GameUnchanged
    /\ CliOthers

\* handle_tick: control_rx.recv_timeout(..) returned Ok(new_speed) in the
\* Unpaused loop, or control_rx.recv() returned in the Paused loop
TimerRecv ==
    /\ cli.running /\ ~panicked
    /\ cli.speed_rx # <<>>
    /\ cli' = [cli EXCEPT !.timer_speed = Head(cli.speed_rx), !.speed_rx = Tail(@)]
    /\ GameUnchanged
    /\ CliOthers

TimerTimeoutTicksGame ==
    /\ cli.running /\ ~panicked
    /\ cli.timer_speed # "Paused"
    /\ cli.speed_rx = <<>>
    /\ cli.ticks_sent < MaxTicks
    /\ TickGame
    /\ cli' = [cli EXCEPT !.ticks_sent = @ + 1]
    /\ CliOthers

\* handle_tick: recv_timeout timed out with no speed received, in the
\* Unpaused loop: tx.send(UpdateEvent::Tick)
TimerTimeout ==
    /\ cli.running /\ ~panicked
    /\ cli.timer_speed # "Paused"
    /\ cli.speed_rx = <<>>
    /\ cli.ticks_sent < MaxTicks
    /\ cli' = [cli EXCEPT !.update_rx = Append(@, "Tick"), !.ticks_sent = @ + 1]
    /\ GameUnchanged
    /\ CliOthers

\* handle_user_input: a key press that maps to a UserAction was read
InputKey ==
    /\ cli.running /\ ~panicked
    /\ cli.keys_read < MaxKeys
    /\ \E user_action \in UserAction :
          cli' = [cli EXCEPT !.update_rx = Append(@, user_action),
                            !.keys_read = @ + 1]
    /\ GameUnchanged
    /\ CliOthers

(***************************************************************************)
(* SpecCli: main has built the widget from Game::new(h, w).randomize(p)    *)
(* and started the two threads.  The dimensions are u8 arguments, so no    *)
(* wrap of the engine leaves the i32 range and the build profile makes no  *)
(* difference; the release profile is taken.                               *)
(***************************************************************************)
InitCli ==
    /\ overflow_checks = FALSE
    /\ call = NoCall /\ ret = NoRet /\ file = NoFile /\ result = NewResult
    /\ \E h \in 0..MaxCliCells, w \in 0..MaxCliCells :
          /\ h * w <= MaxCliCells
          /\ height = h
          /\ width = w
          /\ \E p \in Probabilities \ {150} :
             \E draw \in Draws(h, w, p) : cells = randomized(h, w, draw)
    /\ generation = 0
    /\ tick_calls = 0
    /\ panicked = FALSE
    /\ items = NoItems /\ simple = NoSimple
    /\ \E speed_variant \in SpeedVariant : cli = GameWidget_new(speed_variant)

NextCli ==
    \/ CliDraw
    \/ MainTick
    \/ MainQuit
    \/ MainRegulateSpeed
    \/ MainTogglePause
    \/ TimerRecv
    \/ TimerTimeout
    \/ InputKey

SpecCli == InitCli /\ [][NextCli]_vars

\* grid g of h rows and w columns after k generations of Conway's rule
RECURSIVE Ticked(_, _, _, _)
Ticked(g, h, w, k) ==
    IF k = 0 THEN g
    ELSE LET before == Ticked(g, h, w, k - 1)
         IN  [r \in 1..h |-> [c \in 1..w |->
                 IF AliveNext(before, h, w, r - 1, c - 1)
                 THEN "Alive" ELSE "Dead"]]

\* the frame shows generation k and, at every position, the cell that the
\* initial grid has there after k generations
FrameIsWhole(frame, h, w, initial) ==
    /\ frame.generation \in 0..MaxTicks
    /\ Len(frame.items) = h * w
    /\ LET expected == Ticked(initial, h, w, frame.generation)
       IN  \A r \in 0..(h - 1), c \in 0..(w - 1) :
              frame.items[r * w + c + 1] = << <<r, c>>, expected[r + 1][c + 1] >>

\* C18: under every interleaving of the timer thread, the input thread and
\* the coordinating loop, the Game changes only in a step of the loop that
\* takes a Tick event off the update channel, so the two threads reach it
\* only through the events they send; and every frame the loop draws shows
\* the grid that is the initial grid after k whole ticks, with generation k.
FramesShowWholeTicks ==
    [][/\ (cells' # cells \/ generation' # generation
            \/ height' # height \/ width' # width) =>
             /\ cli.main_pc = "recv" /\ cli'.main_pc = "draw"
             /\ cli.update_rx # <<>>
             /\ Head(cli.update_rx) = "Tick"
             /\ cli'.update_rx = Tail(cli.update_rx)
             /\ cli'.ticks_sent = cli.ticks_sent
             /\ cli'.keys_read = cli.keys_read
             /\ cli'.timer_speed = cli.timer_speed
       /\ cli'.frame # cli.frame =>
             /\ cli.main_pc = "draw" /\ cli'.main_pc = "recv"
             /\ cli'.frame.drawn
             /\ FrameIsWhole(cli'.frame, height', width', cli'.initial)]_vars

\* a frame of generation 2 on a 1x2 grid that started with both cells
\* Alive (they die in the first tick), drawn after a key was read
FramesShowWholeTicksWitness ==
    /\ cli.running /\ cli.frame.drawn
    /\ cli.frame.generation = 2
    /\ cli.keys_read = 1
    /\ height = 1 /\ width = 2
    /\ cli.initial = << <<"Alive", "Alive">> >>
    /\ cli.frame.items = << << <<0, 0>>, "Dead" >>, << <<0, 1>>, "Dead" >> >>

\* C21: once the loop has processed a TogglePause that left the widget's
\* speed Paused, no tick is applied until the loop processes the next
\* TogglePause: no step taken while the widget's speed is Paused changes
\* generation, whatever the timer thread and the channels hold.
PausedBlocksTicks ==
    [][(cli.running /\ cli.speed = "Paused") => generation' = generation]_vars

(***************************************************************************)
(* SpecWidget: a GameWidget built by GameWidget::new(game, speed), then    *)
(* any sequence of regulate_speed and toggle_pause.  calls lists the calls *)
(* made, each with the speed() after it.                                   *)
(***************************************************************************)
InitWidget ==
    /\ overflow_checks = FALSE
    /\ call = NoCall /\ ret = NoRet /\ file = NoFile /\ result = NewResult
    /\ Game_new(0, 0)
    /\ tick_calls = 0
    /\ panicked = FALSE
    /\ items = NoItems /\ simple = NoSimple
    /\ \E speed \in SpeedVariant \cup {"Paused"} :
          LET widget == GameWidget_new(speed)
          IN  cli = [running |-> FALSE,
                     speed |-> widget.speed,
                     speed_when_unpaused |-> widget.speed_when_unpaused,
                     calls |-> << [op |-> "new", speed |-> widget.speed] >>]

WidgetRegulateSpeed ==
    /\ Len(cli.calls) <= MaxWidgetCalls
    /\ \E speed_action \in SpeedAction :
          LET widget == GameWidget_regulate_speed(cli, speed_action)
          IN  cli' = [widget EXCEPT !.calls =
                         Append(@, [op |-> speed_action, speed |-> widget.speed])]
    /\ GameUnchanged
    /\ CliOthers

WidgetTogglePause ==
    /\ Len(cli.calls) <= MaxWidgetCalls
    /\ LET widget == GameWidget_toggle_pause(cli)
       IN  cli' = [widget EXCEPT !.calls =
                      Append(@, [op |-> "TogglePause", speed |-> widget.speed])]
    /\ GameUnchanged
    /\ CliOthers

NextWidget == WidgetRegulateSpeed \/ WidgetTogglePause

SpecWidget == InitWidget /\ [][NextWidget]_vars

\* C22: when toggle_pause is called at Unpaused(v), then regulate_speed any
\* number of times, then toggle_pause again, the speed is Paused after
\* each call but the last and Unpaused(v) after the last.
PauseRestoresSpeed ==
    \A i \in 2..Len(cli.calls), j \in 2..Len(cli.calls) :
        (/\ i < j
         /\ cli.calls[i].op = "TogglePause"
         /\ cli.calls[i - 1].speed # "Paused"
         /\ cli.calls[j].op = "TogglePause"
         /\ \A k \in (i + 1)..(j - 1) : cli.calls[k].op \in {"Increase", "Decrease"})
        => (/\ \A k \in i..(j - 1) : cli.calls[k].speed = "Paused"
            /\ cli.calls[j].speed = cli.calls[i - 1].speed)

\* a widget built at Normal, sped up to Fast, paused, slowed down while
\* paused and unpaused: it runs at Fast
PauseRestoresSpeedWitness ==
    /\ Len(cli.calls) = 5
    /\ cli.calls[1] = [op |-> "new", speed |-> "Normal"]
    /\ cli.calls[2].op = "Increase"
    /\ cli.calls[3].op = "TogglePause"
    /\ cli.calls[4].op = "Decrease"
    /\ cli.calls[5].op = "TogglePause"
    /\ cli.speed = "Fast"
====
